---- MODULE Spec2Model ----
(***************************************************************************)
(* cosmrs auth module: the JSON codec of BaseAccount.                      *)
(*                                                                         *)
(* BaseAccount is (de)serialized through the wire shape BaseAccountJson    *)
(* (serde try_from / into).  The wire shape carries the "@type" tag and    *)
(* encodes the two u64 fields as decimal strings (mod string).             *)
(*                                                                         *)
(* A JSON text is modelled as the ordered list of the members of one JSON  *)
(* object plus its layout (compact, with insignificant whitespace, or      *)
(* truncated).  A JSON string is the list of its tokens, a token being a   *)
(* character written literally or as an escape.  A u64 is kept at its full *)
(* width as three base-10^7 limbs.                                         *)
(***************************************************************************)
EXTENDS Integers, Sequences, FiniteSets, TLC

VARIABLES pc, account, input, result, output, back

vars == <<pc, account, input, result, output, back>>

(***************************************************************************)
(* Bounds of the model.                                                    *)
(***************************************************************************)
\* longest decimal string enumerated character by character
MaxLen == 2
\* longest address (in characters / string tokens)
MaxAddrLen == 2
\* the records built directly have numbers 0..MaxNum (and the top of u64)
MaxNum == 10

(***************************************************************************)
(* u64: <<hi, mid, lo>> stands for hi * 10^14 + mid * 10^7 + lo.           *)
(***************************************************************************)
Limb == 10^7

\* u64::MAX = 18446744073709551615
U64Max == <<184467, 4407370, 9551615>>

U64Zero == <<0, 0, 0>>

\* n <= m on limb triples
Leq(n, m) ==
    \/ n[1] < m[1]
    \/ n[1] = m[1] /\ n[2] < m[2]
    \/ n[1] = m[1] /\ n[2] = m[2] /\ n[3] <= m[3]

\* the triple of a small natural number
FromNat(k) == <<0, k \div Limb, k % Limb>>

\* n * 10 + d without a width limit (the top limb is not reduced)
MulAdd(n, d) ==
    LET lo  == n[3] * 10 + d
        mid == n[2] * 10 + (lo \div Limb)
        hi  == n[1] * 10 + (mid \div Limb)
    IN  <<hi, mid % Limb, lo % Limb>>

\* n / 10 and n % 10
Div10(n) ==
    LET m == (n[1] % 10) * Limb + n[2]
        l == (m % 10) * Limb + n[3]
    IN  <<n[1] \div 10, m \div 10, l \div 10>>

Mod10(n) == n[3] % 10

(***************************************************************************)
(* Characters.                                                             *)
(***************************************************************************)
DigitChars == <<"0", "1", "2", "3", "4", "5", "6", "7", "8", "9">>

IsDigit(c) == \E i \in 1..10 : DigitChars[i] = c

\* char::to_digit(10) of a digit character
ToDigit(c) == (CHOOSE i \in 1..10 : DigitChars[i] = c) - 1

\* the characters a string of <<...>> of one-character strings is made of
Chars(str) == {str[i] : i \in 1..Len(str)}

\* all sequences over S of length at most n
RECURSIVE SeqsUpTo(_, _)
SeqsUpTo(S, n) ==
    IF n = 0 THEN {<<>>}
    ELSE LET shorter == SeqsUpTo(S, n - 1)
         IN  shorter \cup {Append(s, c) : s \in shorter, c \in S}

(***************************************************************************)
(* <u64 as Display>::fmt and <u64 as FromStr>::from_str, which mod string  *)
(* calls through collect_str and str::parse.                               *)
(***************************************************************************)
RECURSIVE FmtDigits(_)
FmtDigits(n) ==
    IF n = U64Zero THEN <<>>
    ELSE Append(FmtDigits(Div10(n)), DigitChars[Mod10(n) + 1])

\* variant: the zero case is forgotten, zero formats as the empty string
to_string_u64_no_zero(n) == FmtDigits(n)

\* decimal formatting: "0" for zero, else the digits without leading zeros
to_string_u64(n) == IF n = U64Zero THEN <<"0">> ELSE FmtDigits(n)

ParseOk(n) == [ok |-> TRUE, value |-> n, kind |-> "none"]
ParseErr(k) == [ok |-> FALSE, value |-> U64Zero, kind |-> k]

\* the digit loop: checked_mul(10) then checked_add(digit), left to right
RECURSIVE ParseDigits(_, _, _)
ParseDigits(str, i, acc) ==
    IF i > Len(str) THEN ParseOk(acc)
    ELSE IF ~IsDigit(str[i]) THEN ParseErr("InvalidDigit")
    ELSE LET next == MulAdd(acc, ToDigit(str[i]))
         IN  IF ~Leq(next, U64Max) THEN ParseErr("PosOverflow")
             ELSE ParseDigits(str, i + 1, next)

\* u64::from_str: empty is an error, a lone sign is an error, one leading
\* "+" is skipped, "-" is not a sign of an unsigned type
from_str_u64(str) ==
    IF Len(str) = 0 THEN ParseErr("Empty")
    ELSE IF Len(str) = 1 /\ str[1] \in {"+", "-"} THEN ParseErr("InvalidDigit")
    ELSE IF str[1] = "+" THEN ParseDigits(str, 2, U64Zero)
    ELSE ParseDigits(str, 1, U64Zero)

(***************************************************************************)
(* JSON strings and values.                                                *)
(***************************************************************************)
Lit(c) == [c |-> c, esc |-> FALSE]

Esc(c) == [c |-> c, esc |-> TRUE]

\* the characters serde_json never writes literally inside a string
NeedsEscape(c) == c = "\""

\* serde_json writing a string: each character literally unless it must be
\* escaped
escape_str(str) ==
    [i \in 1..Len(str) |-> IF NeedsEscape(str[i]) THEN Esc(str[i]) ELSE Lit(str[i])]

\* serde_json reading a string: an escape stands for its character
unescape_str(toks) == [i \in 1..Len(toks) |-> toks[i].c]

JNull == [t |-> "null", toks |-> <<>>, key |-> "None"]

JNumber(str) == [t |-> "number", toks |-> escape_str(str), key |-> "None"]

JString(toks) == [t |-> "string", toks |-> toks, key |-> "None"]

\* the JSON object that stands for the public key k on the wire
JObject(k) == [t |-> "object", toks |-> <<>>, key |-> k]

Member(k, v) == [key |-> k, val |-> v]

NoText == [none |-> TRUE]

(***************************************************************************)
(* crypto::PublicKey, used as Option<PublicKey>: "None" or a key.          *)
(***************************************************************************)
Keys == {"K1", "K2"}

None == "None"

\* PublicKey's Serialize: the key's own wire object
PublicKey_serialize(k) == JObject(k)

\* PublicKey's Deserialize: accepts exactly the wire object of a key
PublicKey_deserialize(v) ==
    IF v.t = "object" /\ v.key \in Keys
    THEN [ok |-> TRUE, value |-> v.key]
    ELSE [ok |-> FALSE, value |-> None]

(***************************************************************************)
(* Errors and results.                                                     *)
(***************************************************************************)
NoError == [kind |-> "none", field |-> "none", cause |-> "none"]

Error(kind, field, cause) == [kind |-> kind, field |-> field, cause |-> cause]

NoAccount == [none |-> TRUE]

NoResult == [none |-> TRUE]

Ok(v) == [ok |-> TRUE, value |-> v, err |-> NoError]

Err(e) == [ok |-> FALSE, value |-> NoAccount, err |-> e]

\* the failures of the JSON layer and of the derived struct deserializer
InvalidJson == {"syntax", "missing_field", "invalid_type", "duplicate_field"}

\* the failure that string::deserialize raises through de::Error::custom
MalformedNumber == "custom"

(***************************************************************************)
(* mod string                                                              *)
(***************************************************************************)
\* variant: the number is written as a JSON number
string_serialize_as_number(value) == JNumber(to_string_u64(value))

\* serializer.collect_str(value): a JSON string holding the Display text
string_serialize(value) == JString(escape_str(to_string_u64(value)))

\* String::deserialize(deserializer)?.parse().map_err(de::Error::custom)
string_deserialize(field, v) ==
    IF v.t # "string" THEN Err(Error("invalid_type", field, v.t))
    ELSE LET parsed == from_str_u64(unescape_str(v.toks))
         IN  IF parsed.ok THEN Ok(parsed.value)
             ELSE Err(Error(MalformedNumber, field, parsed.kind))

(***************************************************************************)
(* BaseAccount and BaseAccountJson                                         *)
(***************************************************************************)
\* kept as one symbol of a string
TYPE_URL == <<"/cosmos.auth.v1beta1.BaseAccount">>

BaseAccount(address, pub_key, account_number, sequence) ==
    [address |-> address, pub_key |-> pub_key,
     account_number |-> account_number, sequence |-> sequence]

\* variant: the tag of another record kind
from_other_tag(base_account) ==
    [type_url |-> <<"/cosmos.auth.v1beta1.ModuleAccount">>,
     address |-> base_account.address,
     pub_key |-> base_account.pub_key,
     account_number |-> base_account.account_number,
     sequence |-> base_account.sequence]

\* impl From<&BaseAccount> for BaseAccountJson
from(base_account) ==
    [type_url |-> TYPE_URL,
     address |-> base_account.address,
     pub_key |-> base_account.pub_key,
     account_number |-> base_account.account_number,
     sequence |-> base_account.sequence]

\* variant: a tag other than TYPE_URL is rejected
try_from_checked(json) ==
    IF json.type_url # TYPE_URL
    THEN Err(Error("custom", "@type", "mismatch"))
    ELSE Ok(BaseAccount(json.address, json.pub_key, json.account_number, json.sequence))

\* impl TryFrom<&BaseAccountJson> for BaseAccount: never fails, drops type_url
try_from(json) ==
    Ok(BaseAccount(json.address, json.pub_key, json.account_number, json.sequence))

\* the names of the fields of BaseAccountJson on the wire, in declaration order
FieldNames == <<"@type", "account_number", "address", "pub_key", "sequence">>

Known(k) == \E i \in 1..Len(FieldNames) : FieldNames[i] = k

\* variant: skip_serializing_if = "Option::is_none" on pub_key
BaseAccountJson_serialize_skip_none(json) ==
    SelectSeq(
        <<Member("@type", JString(escape_str(json.type_url))),
          Member("account_number", string_serialize(json.account_number)),
          Member("address", JString(escape_str(json.address))),
          Member("pub_key", IF json.pub_key = None THEN JNull
                            ELSE PublicKey_serialize(json.pub_key)),
          Member("sequence", string_serialize(json.sequence))>>,
        LAMBDA m : m.val # JNull)

\* derived Serialize of BaseAccountJson: every field, in declaration order
BaseAccountJson_serialize(json) ==
    <<Member("@type", JString(escape_str(json.type_url))),
      Member("account_number", string_serialize(json.account_number)),
      Member("address", JString(escape_str(json.address))),
      Member("pub_key", IF json.pub_key = None THEN JNull
                        ELSE PublicKey_serialize(json.pub_key)),
      Member("sequence", string_serialize(json.sequence))>>

\* variant: pub_key declared PublicKey instead of Option<PublicKey>
FieldValue_key_required(k, v) ==
    CASE k \in {"account_number", "sequence"} -> string_deserialize(k, v)
      [] k \in {"@type", "address"} ->
            IF v.t = "string" THEN Ok(unescape_str(v.toks))
            ELSE Err(Error("invalid_type", k, v.t))
      [] k = "pub_key" ->
            LET key == PublicKey_deserialize(v)
            IN  IF key.ok THEN Ok(key.value)
                ELSE Err(Error("pub_key", k, v.t))

\* the value of one known field, as the derived Deserialize reads it
FieldValue(k, v) ==
    CASE k \in {"account_number", "sequence"} -> string_deserialize(k, v)
      [] k \in {"@type", "address"} ->
            IF v.t = "string" THEN Ok(unescape_str(v.toks))
            ELSE Err(Error("invalid_type", k, v.t))
      [] k = "pub_key" ->
            IF v.t = "null" THEN Ok(None)
            ELSE LET key == PublicKey_deserialize(v)
                 IN  IF key.ok THEN Ok(key.value)
                     ELSE Err(Error("pub_key", k, v.t))

Unset == [set |-> FALSE]

Set(v) == [set |-> TRUE, v |-> v]

NoSlots == [k \in Chars(FieldNames) |-> Unset]

\* variant: #[serde(default)] on address
Finish_default_address(slots, layout) ==
    IF layout = "truncated" THEN Err(Error("syntax", "none", "EOF"))
    ELSE IF ~slots["@type"].set THEN Err(Error("missing_field", "@type", "none"))
    ELSE IF ~slots["account_number"].set
         THEN Err(Error("missing_field", "account_number", "none"))
    ELSE IF ~slots["sequence"].set THEN Err(Error("missing_field", "sequence", "none"))
    ELSE Ok([type_url |-> slots["@type"].v,
             account_number |-> slots["account_number"].v,
             address |-> IF slots["address"].set THEN slots["address"].v ELSE <<>>,
             pub_key |-> IF slots["pub_key"].set THEN slots["pub_key"].v ELSE None,
             sequence |-> slots["sequence"].v])

\* variant: #[serde(default)] on type_url
Finish_default_type(slots, layout) ==
    IF layout = "truncated" THEN Err(Error("syntax", "none", "EOF"))
    ELSE IF ~slots["account_number"].set
         THEN Err(Error("missing_field", "account_number", "none"))
    ELSE IF ~slots["address"].set THEN Err(Error("missing_field", "address", "none"))
    ELSE IF ~slots["sequence"].set THEN Err(Error("missing_field", "sequence", "none"))
    ELSE Ok([type_url |-> IF slots["@type"].set THEN slots["@type"].v ELSE <<>>,
             account_number |-> slots["account_number"].v,
             address |-> slots["address"].v,
             pub_key |-> IF slots["pub_key"].set THEN slots["pub_key"].v ELSE None,
             sequence |-> slots["sequence"].v])

\* the end of the derived visit_map: the end of the object must be there,
\* then every field but the Option must have been seen
Finish(slots, layout) ==
    IF layout = "truncated" THEN Err(Error("syntax", "none", "EOF"))
    ELSE IF ~slots["@type"].set THEN Err(Error("missing_field", "@type", "none"))
    ELSE IF ~slots["account_number"].set
         THEN Err(Error("missing_field", "account_number", "none"))
    ELSE IF ~slots["address"].set THEN Err(Error("missing_field", "address", "none"))
    ELSE IF ~slots["sequence"].set THEN Err(Error("missing_field", "sequence", "none"))
    ELSE Ok([type_url |-> slots["@type"].v,
             account_number |-> slots["account_number"].v,
             address |-> slots["address"].v,
             pub_key |-> IF slots["pub_key"].set THEN slots["pub_key"].v ELSE None,
             sequence |-> slots["sequence"].v])

\* derived Deserialize of BaseAccountJson: the members in the order of the
\* text; an unknown key is skipped, a repeated key is an error
RECURSIVE visit_map(_, _, _, _)
visit_map(members, i, slots, layout) ==
    IF i > Len(members) THEN Finish(slots, layout)
    ELSE LET k == members[i].key
             v == members[i].val
         IN  IF ~Known(k) THEN visit_map(members, i + 1, slots, layout)
             ELSE IF slots[k].set THEN Err(Error("duplicate_field", k, "none"))
             ELSE LET r == FieldValue(k, v)
                  IN  IF ~r.ok THEN r
                      ELSE visit_map(members, i + 1,
                                     [slots EXCEPT ![k] = Set(r.value)], layout)

BaseAccountJson_deserialize(text) == visit_map(text.members, 1, NoSlots, text.layout)

\* BaseAccount::from_json: serde_json::from_str::<BaseAccount>, that is the
\* wire shape and then try_from
from_json(s) ==
    LET json == BaseAccountJson_deserialize(s)
    IN  IF json.ok THEN try_from(json.value) ELSE json

\* variant: the fields in the order of BaseAccount's declaration
to_json_struct_order(self) ==
    LET m == BaseAccountJson_serialize(from(self))
    IN  [members |-> <<m[1], m[3], m[4], m[2], m[5]>>, layout |-> "compact"]

\* BaseAccount::to_json: serde_json::to_string, that is into the wire shape
\* and then its compact text
to_json(self) ==
    [members |-> BaseAccountJson_serialize(from(self)), layout |-> "compact"]

(***************************************************************************)
(* The inputs: accounts built directly and JSON texts handed to from_str.  *)
(***************************************************************************)
AddrChars == {"a", "\""}

Numbers ==
    {FromNat(k) : k \in 0..MaxNum}
        \cup {U64Max, <<184467, 4407370, 9551614>>, <<0, 1, 0>>, <<1, 0, 0>>}

Accounts ==
    {BaseAccount(a, k, n, q) :
        a \in SeqsUpTo(AddrChars, MaxAddrLen), k \in Keys \cup {None},
        n \in Numbers, q \in Numbers}

\* a field that the text does not have
Absent == [t |-> "absent", toks |-> <<>>, key |-> "None"]

NumAlphabet == {"0", "7", "+", "-", "x"}

\* 2^64 - 1, 2^64 and a 20-digit number above both
LongStrs ==
    {<<"1","8","4","4","6","7","4","4","0","7","3","7","0","9","5","5","1","6","1","5">>,
     <<"1","8","4","4","6","7","4","4","0","7","3","7","0","9","5","5","1","6","1","6">>,
     <<"9","9","9","9","9","9","9","9","9","9","9","9","9","9","9","9","9","9","9","9">>}

NumStrs == SeqsUpTo(NumAlphabet, MaxLen) \cup LongStrs

NumValues ==
    {Absent, JNull, JNumber(<<"7">>), JString(<<Esc("7")>>)}
        \cup {JString(escape_str(str)) : str \in NumStrs}

AddrTokens == {Lit("a"), Esc("a"), Esc("\"")}

AddrValues ==
    {Absent, JNumber(<<"7">>)} \cup {JString(t) : t \in SeqsUpTo(AddrTokens, MaxAddrLen)}

TypeValues ==
    {Absent, JNull, JNumber(<<"7">>), JString(escape_str(TYPE_URL)), JString(<<Lit("/other")>>)}

PubValues ==
    {Absent, JNull, JObject("K1"), JObject("K2"), JObject(None), JString(<<Lit("a")>>)}

\* a sixth member at the end: none, an unknown key, or one more address
ExtraValues == {"none", "memo", "address"}

Orders == {"declared", "reversed"}

Layouts == {"compact", "spaced", "truncated"}

ShapeFields ==
    <<"@type", "account_number", "address", "pub_key", "sequence",
      "extra", "order", "layout">>

Variants(f) ==
    CASE f = "@type" -> TypeValues
      [] f \in {"account_number", "sequence"} -> NumValues
      [] f = "address" -> AddrValues
      [] f = "pub_key" -> PubValues
      [] f = "extra" -> ExtraValues
      [] f = "order" -> Orders
      [] f = "layout" -> Layouts

\* the text of the test's example, with short values
ExampleShape ==
    [f \in Chars(ShapeFields) |->
        CASE f = "@type" -> JString(escape_str(TYPE_URL))
          [] f = "account_number" -> JString(<<Lit("7"), Lit("0")>>)
          [] f = "address" -> JString(<<Lit("a")>>)
          [] f = "pub_key" -> JObject("K1")
          [] f = "sequence" -> JString(<<Lit("7")>>)
          [] f = "extra" -> "none"
          [] f = "order" -> "declared"
          [] f = "layout" -> "compact"]

RECURSIVE Reverse(_)
Reverse(seq) ==
    IF seq = <<>> THEN <<>> ELSE Append(Reverse(Tail(seq)), Head(seq))

\* the members of a shape: the fields it has, then the extra member
ShapeMembers(shape) ==
    LET fields == SelectSeq(FieldNames, LAMBDA k : shape[k] # Absent)
        own    == [i \in 1..Len(fields) |-> Member(fields[i], shape[fields[i]])]
        all    == CASE shape["extra"] = "none" -> own
                    [] shape["extra"] = "memo" ->
                          Append(own, Member("memo", JString(<<Lit("a")>>)))
                    [] shape["extra"] = "address" ->
                          Append(own, Member("address", JString(<<Lit("a")>>)))
    IN  IF shape["order"] = "reversed" THEN Reverse(all) ELSE all

TextOf(shape) == [members |-> ShapeMembers(shape), layout |-> shape["layout"]]

\* the example with the fields f and g replaced by the variants v and w
Patched(f, v, g, w) == TextOf([[ExampleShape EXCEPT ![f] = v] EXCEPT ![g] = w])

(***************************************************************************)
(* The state machine: an account is built directly or parsed from a text   *)
(* (FromStr), then rendered (ToString), and the rendering is parsed again. *)
(***************************************************************************)
Init ==
    /\ pc = "idle"
    /\ account = NoAccount
    /\ input = NoText
    /\ result = NoResult
    /\ output = NoText
    /\ back = NoResult

\* a BaseAccount built by the caller from its fields
New ==
    /\ pc = "idle"
    /\ \E a \in Accounts : account' = a
    /\ pc' = "ready"
    /\ UNCHANGED <<input, result, output, back>>

\* impl FromStr for BaseAccount: from_json of a text the caller supplies,
\* the example with at most two of its fields replaced by any variant
from_str ==
    /\ pc = "idle"
    /\ \E i \in 1..Len(ShapeFields) : \E j \in i..Len(ShapeFields) :
          \E v \in Variants(ShapeFields[i]) : \E w \in Variants(ShapeFields[j]) :
              LET text == Patched(ShapeFields[i], v, ShapeFields[j], w)
                  r    == from_json(text)
              IN  /\ input' = text
                  /\ result' = r
                  /\ account' = r.value
                  /\ pc' = IF r.ok THEN "ready" ELSE "failed"
    /\ UNCHANGED <<output, back>>

\* impl ToString for BaseAccount: to_json of the account in hand
to_string ==
    /\ pc = "ready"
    /\ output' = to_json(account)
    /\ pc' = "rendered"
    /\ UNCHANGED <<account, input, result, back>>

\* the rendered text parsed again
Reparse ==
    /\ pc = "rendered"
    /\ back' = from_json(output)
    /\ pc' = "done"
    /\ UNCHANGED <<account, input, result, output>>

Next == New \/ from_str \/ to_string \/ Reparse

Spec == Init /\ [][Next]_vars

(***************************************************************************)
(* Reading a text, for the properties below.                               *)
(***************************************************************************)
KeysOf(text) == [i \in 1..Len(text.members) |-> text.members[i].key]

Count(text, k) == Cardinality({i \in 1..Len(text.members) : text.members[i].key = k})

\* the value of the first member named k
ValueOf(text, k) ==
    IF Count(text, k) = 0 THEN Absent
    ELSE text.members[CHOOSE i \in 1..Len(text.members) :
                          /\ text.members[i].key = k
                          /\ \A j \in 1..(i - 1) : text.members[j].key # k].val

\* the text with every member named k given the value v
WithValue(text, k, v) ==
    [text EXCEPT !.members =
        [i \in 1..Len(text.members) |->
            IF text.members[i].key = k THEN Member(k, v) ELSE text.members[i]]]

\* the text without the members named k
Without(text, k) ==
    [text EXCEPT !.members = SelectSeq(text.members, LAMBDA m : m.key # k)]

\* the text with pub_key missing (v = Absent) or with pub_key of value v
WithPubKey(text, v) ==
    IF v = Absent THEN Without(text, "pub_key")
    ELSE IF Count(text, "pub_key") = 0
         THEN [text EXCEPT !.members = Append(text.members, Member("pub_key", v))]
         ELSE WithValue(text, "pub_key", v)

MaxDigits ==
    <<"1","8","4","4","6","7","4","4","0","7","3","7","0","9","5","5","1","6","1","5">>

RECURSIVE StripZeros(_)
StripZeros(str) ==
    IF str # <<>> /\ Head(str) = "0" THEN StripZeros(Tail(str)) ELSE str

AllDigits(str) == \A i \in 1..Len(str) : IsDigit(str[i])

\* a digit string that denotes more than 2^64 - 1
Exceeds(str) ==
    LET d == StripZeros(str)
    IN  \/ Len(d) > Len(MaxDigits)
        \/ /\ Len(d) = Len(MaxDigits)
           /\ \E i \in 1..Len(d) :
                 /\ \A j \in 1..(i - 1) : d[j] = MaxDigits[j]
                 /\ ToDigit(d[i]) > ToDigit(MaxDigits[i])

\* empty, or with a character that is no digit (a sign is one), or too large
Malformed(str) == str = <<>> \/ ~AllDigits(str) \/ Exceeds(str)

Content(v) == [i \in 1..Len(v.toks) |-> v.toks[i].c]

NumberFields == {"account_number", "sequence"}

RequiredFields == {"address", "account_number", "sequence"}

\* a number field that is a string and is malformed
HasMalformedNumber(text) ==
    \E i \in 1..Len(text.members) :
        /\ text.members[i].key \in NumberFields
        /\ text.members[i].val.t = "string"
        /\ Malformed(Content(text.members[i].val))

SignedNumber(text) ==
    \E i \in 1..Len(text.members) :
        /\ text.members[i].key \in NumberFields
        /\ text.members[i].val.t = "string"
        /\ \E j \in 1..Len(text.members[i].val.toks) :
              text.members[i].val.toks[j].c \in {"+", "-"}

\* the object is closed and no key is repeated
Framed(text) ==
    /\ text.layout # "truncated"
    /\ \A k \in Chars(FieldNames) : Count(text, k) <= 1

NumOk(text, k) ==
    /\ Count(text, k) = 1
    /\ ValueOf(text, k).t = "string"
    /\ ~Malformed(Content(ValueOf(text, k)))

AddrOk(text) == Count(text, "address") = 1 /\ ValueOf(text, "address").t = "string"

TagOk(text) == Count(text, "@type") = 1 /\ ValueOf(text, "@type").t = "string"

KeyOk(text) ==
    \/ Count(text, "pub_key") = 0
    \/ ValueOf(text, "pub_key") = JNull
    \/ ValueOf(text, "pub_key").t = "object" /\ ValueOf(text, "pub_key").key \in Keys

\* a required field that is missing or is no JSON string
MissingOrMistyped(text, k) ==
    Count(text, k) = 0 \/ \E i \in 1..Len(text.members) :
                             text.members[i].key = k /\ text.members[i].val.t # "string"

\* a text was parsed
Parsed == pc # "idle" /\ input # NoText

\* the account in hand was rendered
Rendered == pc \in {"rendered", "done"}

SameFields(a, b) ==
    /\ a.address = b.address
    /\ a.pub_key = b.pub_key
    /\ a.account_number = b.account_number
    /\ a.sequence = b.sequence

(***************************************************************************)
(* C1                                                                      *)
(***************************************************************************)
CanonNumber(v) ==
    /\ v.t = "string"
    /\ Len(v.toks) >= 1
    /\ \A i \in 1..Len(v.toks) : ~v.toks[i].esc /\ IsDigit(v.toks[i].c)
    /\ Len(v.toks) > 1 => v.toks[1].c # "0"

\* the text is written the way the encoder writes: compact, the five keys
\* once each in declaration order, the tag of this record kind, numbers
\* without sign, escape or leading zero, the address escaped only where it
\* must be, pub_key null or a key object
Canonical(text) ==
    /\ text.layout = "compact"
    /\ KeysOf(text) = <<"@type", "account_number", "address", "pub_key", "sequence">>
    /\ ValueOf(text, "@type") = JString(<<Lit("/cosmos.auth.v1beta1.BaseAccount")>>)
    /\ CanonNumber(ValueOf(text, "account_number"))
    /\ CanonNumber(ValueOf(text, "sequence"))
    /\ ValueOf(text, "address").t = "string"
    /\ \A i \in 1..Len(ValueOf(text, "address").toks) :
          ValueOf(text, "address").toks[i].esc
             <=> (ValueOf(text, "address").toks[i].c = "\"")
    /\ ValueOf(text, "pub_key").t \in {"null", "object"}

\* C1 as stated: every accepted text whose fields are in the order @type,
\* account_number, address, pub_key, sequence is reproduced character for
\* character by to_json(from_json(T))
C1_ExactTextRoundTrip ==
    (Rendered /\ input # NoText
        /\ KeysOf(input) = <<"@type", "account_number", "address", "pub_key", "sequence">>)
        => output = input

\* C1 amended: every accepted text that is in the encoder's canonical form
\* is reproduced character for character by to_json(from_json(T))
C1_CanonicalTextRoundTrip ==
    (Rendered /\ input # NoText /\ Canonical(input)) => output = input

C1_Witness ==
    /\ pc = "rendered"
    /\ input # NoText
    /\ Canonical(input)
    /\ ValueOf(input, "pub_key") = JNull
    /\ ValueOf(input, "address") = JString(<<Lit("a"), Esc("\"")>>)
    /\ output = input

(***************************************************************************)
(* C2                                                                      *)
(***************************************************************************)
\* C2: parsing the rendering of any account succeeds and gives back the
\* account's address, pub_key, account_number and sequence
C2_StructuralRoundTrip ==
    pc = "done" => back.ok /\ SameFields(back.value, account)

C2_Witness ==
    /\ pc = "done"
    /\ input = NoText
    /\ account.account_number = <<184467, 4407370, 9551615>>
    /\ account.sequence = <<0, 0, 0>>
    /\ account.pub_key = "K2"
    /\ account.address = <<"\"", "a">>
    /\ back.ok

(***************************************************************************)
(* C3                                                                      *)
(***************************************************************************)
\* C3 as stated: a text whose account_number or sequence string is empty,
\* has a character that is no digit (a sign included) or exceeds 2^64 - 1
\* never decodes to a record, and fails with MalformedNumber when nothing
\* else is wrong with the text
C3_MalformedNumberRejected ==
    (Parsed /\ HasMalformedNumber(input))
        => /\ ~result.ok
           /\ (Framed(input) /\ TagOk(input) /\ AddrOk(input) /\ KeyOk(input)
                  /\ \A k \in NumberFields : Count(input, k) = 1
                                               /\ ValueOf(input, k).t = "string")
                 => result.err.kind = MalformedNumber

(***************************************************************************)
(* C4                                                                      *)
(***************************************************************************)
\* C4: every rendering has exactly one @type member and its value is the
\* string /cosmos.auth.v1beta1.BaseAccount, also when the account was
\* decoded from a text with another tag
C4_TagPresence ==
    Rendered
        => /\ Count(output, "@type") = 1
           /\ ValueOf(output, "@type") = JString(<<Lit("/cosmos.auth.v1beta1.BaseAccount")>>)

C4_Witness ==
    /\ pc = "rendered"
    /\ input # NoText
    /\ ValueOf(input, "@type") = JString(<<Lit("/other")>>)
    /\ ValueOf(output, "@type") = JString(<<Lit("/cosmos.auth.v1beta1.BaseAccount")>>)

(***************************************************************************)
(* C5                                                                      *)
(***************************************************************************)
RestOk(text) ==
    /\ Framed(text)
    /\ TagOk(text)
    /\ AddrOk(text)
    /\ NumOk(text, "account_number")
    /\ NumOk(text, "sequence")

\* C5: with the rest of the text well-formed, a missing or null pub_key
\* decodes to None and a key object decodes to that key; and whenever a text
\* decodes, the same text with pub_key missing, null or a key object decodes
\* too, to the same address, account_number and sequence
C5_OptionalKey ==
    Parsed =>
        /\ (RestOk(input) /\ (Count(input, "pub_key") = 0 \/ ValueOf(input, "pub_key") = JNull))
              => result.ok /\ result.value.pub_key = "None"
        /\ \A k \in Keys :
              (RestOk(input) /\ ValueOf(input, "pub_key") = JObject(k))
                  => result.ok /\ result.value.pub_key = k
        /\ result.ok =>
              \A v \in {Absent, JNull} \cup {JObject(k) : k \in Keys} :
                  LET other == from_json(WithPubKey(input, v))
                  IN  /\ other.ok
                      /\ other.value.address = result.value.address
                      /\ other.value.account_number = result.value.account_number
                      /\ other.value.sequence = result.value.sequence

C5_Witness ==
    /\ Parsed
    /\ RestOk(input)
    /\ Count(input, "pub_key") = 0
    /\ result.ok
    /\ result.value.pub_key = "None"
    /\ result.value.account_number = <<0, 0, 70>>

(***************************************************************************)
(* C6                                                                      *)
(***************************************************************************)
\* nothing but missing or mistyped fields is wrong with the text
NoOtherDefect(text) == ~HasMalformedNumber(text) /\ KeyOk(text)

\* C6: a text in which address, account_number or sequence is missing or is
\* no JSON string never decodes and gives no account; when nothing else is
\* wrong with it the failure is one of the JSON layer, not MalformedNumber
C6_MissingRequiredField ==
    (Parsed /\ \E k \in RequiredFields : MissingOrMistyped(input, k))
        => /\ ~result.ok
           /\ result.value = NoAccount
           /\ account = NoAccount
           /\ NoOtherDefect(input)
                 => result.err.kind \in InvalidJson /\ result.err.kind # MalformedNumber

C6_Witness ==
    /\ Parsed
    /\ Count(input, "address") = 0
    /\ NumOk(input, "account_number")
    /\ NumOk(input, "sequence")
    /\ result.err = Error("missing_field", "address", "none")
    /\ account = NoAccount

(***************************************************************************)
(* C7                                                                      *)
(***************************************************************************)
\* C7: with address, account_number, sequence and pub_key well-formed the
\* text decodes whatever string its @type is, and to the same account as
\* the text with any other tag
C7_PermissiveTag ==
    (Parsed /\ Framed(input) /\ TagOk(input) /\ AddrOk(input) /\ KeyOk(input)
        /\ NumOk(input, "account_number") /\ NumOk(input, "sequence"))
        => /\ result.ok
           /\ \A tag \in {<<"/cosmos.auth.v1beta1.BaseAccount">>, <<"/other">>, <<>>} :
                 from_json(WithValue(input, "@type", JString(escape_str(tag)))) = result

C7_Witness ==
    /\ Parsed
    /\ ValueOf(input, "@type") = JString(<<Lit("/other")>>)
    /\ KeyOk(input)
    /\ result.ok
    /\ result.value.address = <<"a">>

(***************************************************************************)
(* C8                                                                      *)
(***************************************************************************)
\* C8: every rendering is compact and has exactly the keys @type,
\* account_number, address, pub_key, sequence in this order; pub_key is
\* null when the account has no key and the key's object when it has one
C8_FixedShape ==
    Rendered
        => /\ KeysOf(output) = <<"@type", "account_number", "address", "pub_key", "sequence">>
           /\ output.layout = "compact"
           /\ (account.pub_key = "None") => ValueOf(output, "pub_key") = JNull
           /\ (account.pub_key # "None") => ValueOf(output, "pub_key").t = "object"

C8_Witness ==
    /\ pc = "rendered"
    /\ input = NoText
    /\ account.pub_key = "None"
    /\ ValueOf(output, "pub_key") = JNull
    /\ Len(output.members) = 5

(***************************************************************************)
(* C9                                                                      *)
(***************************************************************************)
\* C9: the rendered account_number and sequence are JSON strings made of
\* literal digits only, with no leading zero except the string "0" for
\* zero, and no two numbers have the same rendering
C9_CanonicalDecimal ==
    Rendered =>
        \A k \in NumberFields :
            LET v == ValueOf(output, k)
                n == IF k = "sequence" THEN account.sequence ELSE account.account_number
            IN  /\ CanonNumber(v)
                /\ (v = JString(<<Lit("0")>>)) <=> (n = <<0, 0, 0>>)
                /\ \A m \in Numbers : (string_serialize(m) = v) => m = n

C9_Witness ==
    /\ pc = "rendered"
    /\ account.account_number = <<0, 0, 0>>
    /\ account.sequence = <<0, 1, 0>>
    /\ ValueOf(output, "account_number") = JString(<<Lit("0")>>)
    /\ Len(ValueOf(output, "sequence").toks) = 8

====
